---- MODULE Spec2Model ----
(***************************************************************************)
(* The Cluedo game server of src/main.rs: one GameState (roster of players *)
(* with their hands, optional solution) behind one Mutex, and the request  *)
(* handlers create_player, delete_player, get_players, get_player,         *)
(* create_game, delete_game and suggest.  Every handler runs under the     *)
(* lock from its first statement to its return.  Spec, SpecHandlers and    *)
(* SpecDeal take one request as one step; SpecConc runs the requests on    *)
(* threads that take the lock, read, write and release in separate steps.  *)
(***************************************************************************)
EXTENDS Integers, Sequences, FiniteSets, TLC

VARIABLES players, solution, poisoned, last, holder, threads

vars == <<players, solution, poisoned, last, holder, threads>>

(***************************************************************************)
(* Bounds of the model.                                                    *)
(***************************************************************************)
\* How many distinct player names requests draw from.
NumNames == 3
\* How many requests run concurrently in SpecConc.
NumThreads == 2
\* rand's choose() may return any element; the model draws among the first
\* RngBound elements of the slice.
RngBound == 2
\* rand's shuffle() may produce any permutation; the model draws among
\* MaxShuffles permutations.
MaxShuffles == 2
\* The largest roster create_game's dealing code is run on.
MaxDealPlayers == 19

(***************************************************************************)
(* The card catalog: the three enums, in declaration order (EnumIter).     *)
(***************************************************************************)
Suspects == <<"Plum", "Green", "Mustard", "Peacock", "Scarlett", "Orchid">>

Weapons == <<"Candlestick", "LeadPipe", "Dagger", "Rope", "Revolver", "Wrench">>

Rooms == <<"Kitchen", "Hall", "Lounge", "Ballroom", "Conservatory",
           "DiningRoom", "Library", "BilliardRoom", "Study">>

\* enum Card: a kind and the value it carries; equality is structural.
Card(kind, value) == [kind |-> kind, value |-> value]

\* Option::None of GameState.solution.
None == [none |-> TRUE]

\* struct Suggestion (the value inside Some).
Suggestion(s, w, r) == [suspect |-> s, weapon |-> w, room |-> r]

AllNames ==
    <<"Alice", "Bob", "Carol", "Dave", "Erin", "Frank", "Grace", "Heidi",
      "Ivan", "Judy", "Kim", "Leo", "Mallory", "Niaj", "Olivia", "Peggy",
      "Quentin", "Rupert", "Sybil", "Trent", "Uma", "Victor">>

Names == {AllNames[i] : i \in 1..NumNames}

\* Player::new, were it to start the hand with a card.
PlayerNew_Holding(name) == [name |-> name, cards |-> <<Card("Suspect", "Plum")>>]

\* Player::new: the given name and an empty hand.
PlayerNew(name) == [name |-> name, cards |-> <<>>]

(***************************************************************************)
(* Helpers on sequences.                                                   *)
(***************************************************************************)
Range(s) == {s[i] : i \in 1..Len(s)}

\* Vec::contains.
Contains(s, x) == \E i \in 1..Len(s) : s[i] = x

\* Vec::swap_remove in place of Vec::remove: the last element fills the gap.
RemoveAt_Swap(s, i) ==
    [j \in 1..(Len(s) - 1) |-> IF j = i THEN s[Len(s)] ELSE s[j]]

\* Vec::remove(index), index 1-based here: the later elements shift left.
RemoveAt(s, i) == [j \in 1..(Len(s) - 1) |-> IF j < i THEN s[j] ELSE s[j + 1]]

\* iter().position(|p| p.name == name): the first index, 0 for None.
Position(ps, name) ==
    IF \E i \in 1..Len(ps) : ps[i].name = name
    THEN CHOOSE i \in 1..Len(ps) :
            /\ ps[i].name = name
            /\ \A j \in 1..(i - 1) : ps[j].name # name
    ELSE 0

\* A lookup that compares the name with the latest player only.
NameTaken_LastOnly(ps, name) == Len(ps) > 0 /\ ps[Len(ps)].name = name

\* iter().find(|p| p.name == name) is Some.
NameTaken(ps, name) == \E i \in 1..Len(ps) : ps[i].name = name

\* The outcomes slice.choose(rng) is drawn from in the model.
Choose(xs) == {xs[i] : i \in 1..(IF RngBound < Len(xs) THEN RngBound ELSE Len(xs))}

Reverse(s) == [i \in 1..Len(s) |-> s[Len(s) + 1 - i]]

Rotate(s, k) == [i \in 1..Len(s) |-> s[((i - 1 + k) % Len(s)) + 1]]

\* The k-th permutation slice.shuffle(rng) is drawn from in the model:
\* a rotation by 5k, reversed for odd k.
Shuffle(s, k) ==
    IF Len(s) = 0 THEN s
    ELSE IF k % 2 = 0 THEN Rotate(s, 5 * k) ELSE Reverse(Rotate(s, 5 * k))

(***************************************************************************)
(* The handlers as functions of the locked GameState st = [players,        *)
(* solution]: each returns the GameState it leaves, the Status it answers  *)
(* and the response body.                                                  *)
(***************************************************************************)
NoBody == <<>>

Reply(ps, sol, status, body) ==
    [players |-> ps, solution |-> sol, status |-> status, body |-> body]

\* create_player, were it to put the new player at the front of the roster.
create_player_Prepends(st, name) ==
    IF NameTaken(st.players, name)
    THEN Reply(st.players, st.solution, "Conflict", NoBody)
    ELSE Reply(<<PlayerNew(name)>> \o st.players, st.solution, "Created", NoBody)

\* POST /players/<name>
create_player(st, name) ==
    IF NameTaken(st.players, name)
    THEN Reply(st.players, st.solution, "Conflict", NoBody)
    ELSE Reply(Append(st.players, PlayerNew(name)), st.solution, "Created", NoBody)

\* DELETE /players/<name>
delete_player(st, name) ==
    LET index == Position(st.players, name)
    IN  IF index # 0
        THEN Reply(RemoveAt(st.players, index), st.solution, "NoContent", NoBody)
        ELSE Reply(st.players, st.solution, "NotFound", NoBody)

\* GET /players: the roster, serialised in Vec order.
get_players(st) == Reply(st.players, st.solution, "Ok", st.players)

\* GET /players/<name>
get_player(st, name) ==
    LET index == Position(st.players, name)
    IN  IF index # 0
        THEN Reply(st.players, st.solution, "Ok", <<st.players[index]>>)
        ELSE Reply(st.players, st.solution, "NotFound", NoBody)

\* all_cards after the three extend() calls: the 21 cards in catalog order.
AllCards ==
    [i \in 1..Len(Suspects) |-> Card("Suspect", Suspects[i])]
    \o [i \in 1..Len(Weapons) |-> Card("Weapon", Weapons[i])]
    \o [i \in 1..Len(Rooms) |-> Card("Room", Rooms[i])]

\* solution_vector
SolutionVector(sol) ==
    <<Card("Suspect", sol.suspect), Card("Weapon", sol.weapon), Card("Room", sol.room)>>

\* all_cards.retain(|x| !solution_vector.contains(x))
Retain(cards, sol) ==
    LET keep(x) == ~Contains(SolutionVector(sol), x)
    IN  SelectSeq(cards, keep)

\* The loops' visits, were the extra cards to go to the last players.
Visits_ExtrasLast(total_cards, num_players) ==
    LET base_cards_per_player == total_cards \div num_players
        extra_cards == total_cards % num_players
        full == base_cards_per_player * num_players
    IN  [j \in 1..(full + extra_cards) |->
            IF j <= full THEN ((j - 1) % num_players) + 1
            ELSE num_players - extra_cards + (j - full)]

\* The player_index values the two dealing loops visit, in order (1-based):
\* base rounds over all players, then the first extra players.
Visits(total_cards, num_players) ==
    LET base_cards_per_player == total_cards \div num_players
        extra_cards == total_cards % num_players
        full == base_cards_per_player * num_players
    IN  [j \in 1..(full + extra_cards) |->
            IF j <= full THEN ((j - 1) % num_players) + 1 ELSE j - full]

\* players[player_index].cards.push(card)
Push(ps, player_index, card) ==
    [ps EXCEPT ![player_index].cards = Append(@, card)]

\* The loop bodies: if card_index < all_cards.len() { push; card_index += 1 }
RECURSIVE DealLoop(_, _, _, _)
DealLoop(ps, deck, visits, card_index) ==
    IF visits = <<>> THEN ps
    ELSE IF card_index < Len(deck)
         THEN DealLoop(Push(ps, Head(visits), deck[card_index + 1]), deck,
                       Tail(visits), card_index + 1)
         ELSE DealLoop(ps, deck, Tail(visits), card_index)

\* The deal, were create_game to empty the hands before it deals.
Deal_ClearsHands(ps, s, w, r, k) ==
    LET sol == Suggestion(s, w, r)
        deck == Shuffle(Retain(AllCards, sol), k)
        cleared == [i \in 1..Len(ps) |-> [ps[i] EXCEPT !.cards = <<>>]]
    IN  [players |-> DealLoop(cleared, deck, Visits(Len(deck), Len(ps)), 0),
         solution |-> sol]

\* create_game after its checks, for the rng's draws s, w, r (choose) and k
\* (shuffle): the solution stored and the hands after the dealing loops.
Deal(ps, s, w, r, k) ==
    LET sol == Suggestion(s, w, r)
        deck == Shuffle(Retain(AllCards, sol), k)
    IN  [players |-> DealLoop(ps, deck, Visits(Len(deck), Len(ps)), 0),
         solution |-> sol]

\* The check as the lifecycle of the spec has it: go on when no game is active.
SolutionCheckPasses_Intended(sol) == sol = None

\* create_game's first check: it goes on when the solution is Some and
\* returns BadRequest when it is None.
SolutionCheckPasses(sol) == sol # None

\* POST /game
create_game(st, s, w, r, k) ==
    IF ~SolutionCheckPasses(st.solution)
    THEN Reply(st.players, st.solution, "BadRequest", NoBody)
    ELSE IF Len(st.players) < 2
    THEN Reply(st.players, st.solution, "BadRequest", NoBody)
    ELSE LET d == Deal(st.players, s, w, r, k)
         IN  Reply(d.players, d.solution, "Created", <<d>>)

\* delete_game, were it to clear the solution and keep the roster.
delete_game_KeepsRoster(st) ==
    IF st.solution = None
    THEN Reply(st.players, st.solution, "BadRequest", NoBody)
    ELSE Reply(st.players, None, "NoContent", NoBody)

\* delete_game, were it to clear the roster before it checks the solution.
delete_game_ClearsAnyway(st) ==
    IF st.solution = None
    THEN Reply(<<>>, st.solution, "BadRequest", NoBody)
    ELSE Reply(<<>>, None, "NoContent", NoBody)

\* DELETE /game
delete_game(st) ==
    IF st.solution = None
    THEN Reply(st.players, st.solution, "BadRequest", NoBody)
    ELSE Reply(<<>>, None, "NoContent", NoBody)

\* The closure of suggest's find(): the card equals one of the three
\* suggested cards.
Matches(c, sg) ==
    \/ c = Card("Suspect", sg.suspect)
    \/ c = Card("Weapon", sg.weapon)
    \/ c = Card("Room", sg.room)

\* POST /suggest: the loop searches every hand and drops what it finds, then
\* todo!() panics: nothing is written and no Status is returned.
suggest(st, sg) ==
    LET found == [i \in 1..Len(st.players) |->
                    \E j \in 1..Len(st.players[i].cards) :
                        Matches(st.players[i].cards[j], sg)]
    IN  Reply(st.players, st.solution, "Panic", NoBody)

(***************************************************************************)
(* The requests.  last records the latest request: which handler, its      *)
(* name argument, the Status and body answered, whether it got the lock,   *)
(* and what the GameState was when it started (a solution present, the     *)
(* name in the roster, the roster's length), and the Suggestion a suggest  *)
(* request carried.                                                        *)
(***************************************************************************)
NoName == ""

State == [players |-> players, solution |-> solution]

Observed(op, name, status, body, locked) ==
    [op |-> op, name |-> name, status |-> status, body |-> body,
     locked |-> locked, hadSolution |-> solution # None,
     found |-> (\E i \in 1..Len(players) : players[i].name = name),
     n |-> Len(players), sg |-> None]

\* Before any request.
NoRequest ==
    [op |-> "init", name |-> NoName, status |-> "Ok", body |-> NoBody,
     locked |-> FALSE, hadSolution |-> FALSE, found |-> FALSE, n |-> 0,
     sg |-> None]

\* The handler got the lock and returned res.
Handle(op, name, res) ==
    /\ players' = res.players
    /\ solution' = res.solution
    /\ poisoned' = poisoned
    /\ last' = Observed(op, name, res.status, res.body, TRUE)
    /\ UNCHANGED <<holder, threads>>

\* lock().expect(..) on a poisoned Mutex panics before the handler reads or
\* writes anything.
LockPanic(op, name) ==
    /\ UNCHANGED <<players, solution, poisoned, holder, threads>>
    /\ last' = Observed(op, name, "Panic", NoBody, FALSE)

\* Nobody holds the Mutex and no request is in flight.
Unlocked ==
    /\ holder = 0
    /\ threads = <<>>

\* GameState::new(), Mutex::new: the state rocket() manages.
Init ==
    /\ players = <<>>
    /\ solution = None
    /\ poisoned = FALSE
    /\ last = NoRequest
    /\ Unlocked

CreatePlayer(name) ==
    IF poisoned THEN LockPanic("create_player", name)
    ELSE Handle("create_player", name, create_player(State, name))

DeletePlayer(name) ==
    IF poisoned THEN LockPanic("delete_player", name)
    ELSE Handle("delete_player", name, delete_player(State, name))

GetPlayers ==
    IF poisoned THEN LockPanic("get_players", NoName)
    ELSE Handle("get_players", NoName, get_players(State))

GetPlayer(name) ==
    IF poisoned THEN LockPanic("get_player", name)
    ELSE Handle("get_player", name, get_player(State, name))

CreateGame(s, w, r, k) ==
    IF poisoned THEN LockPanic("create_game", NoName)
    ELSE Handle("create_game", NoName, create_game(State, s, w, r, k))

DeleteGame ==
    IF poisoned THEN LockPanic("delete_game", NoName)
    ELSE Handle("delete_game", NoName, delete_game(State))

\* suggest, were the MutexGuard dropped before the panic.
Suggest_NoPoison(sg) ==
    IF poisoned THEN LockPanic("suggest", NoName)
    ELSE /\ UNCHANGED <<players, solution, poisoned, holder, threads>>
         /\ last' = [Observed("suggest", NoName, "Panic", NoBody, TRUE) EXCEPT !.sg = sg]

\* The panic unwinds through the MutexGuard, which poisons the Mutex.
Suggest(sg) ==
    IF poisoned THEN LockPanic("suggest", NoName)
    ELSE /\ players' = suggest(State, sg).players
         /\ solution' = suggest(State, sg).solution
         /\ poisoned' = TRUE
         /\ last' = [Observed("suggest", NoName, suggest(State, sg).status,
                               suggest(State, sg).body, TRUE) EXCEPT !.sg = sg]
         /\ UNCHANGED <<holder, threads>>

\* The Suggestion bodies requests carry in the model.
InputSuggestions ==
    {Suggestion(s, w, r) : s \in Choose(Suspects), w \in Choose(Weapons),
                           r \in Choose(Rooms)}

\* The routes rocket() mounts; any request may arrive at any time.
Next ==
    \/ \E name \in Names : CreatePlayer(name)
    \/ \E name \in Names : DeletePlayer(name)
    \/ GetPlayers
    \/ \E name \in Names : GetPlayer(name)
    \/ \E s \in Choose(Suspects), w \in Choose(Weapons), r \in Choose(Rooms),
          k \in 0..(MaxShuffles - 1) : CreateGame(s, w, r, k)
    \/ DeleteGame
    \/ \E sg \in InputSuggestions : Suggest(sg)

Spec == Init /\ [][Next]_vars

(***************************************************************************)
(* The handlers as functions of any GameState.  No request sequence        *)
(* reaches an active game from GameState::new() (create_game only goes on  *)
(* when a solution is already there), so what one request does to an       *)
(* active game is checked from input states: every roster of fresh players *)
(* with no solution (the states Spec reaches), and every roster of 2 or    *)
(* more fresh players on which create_game's dealing code has run; the     *)
(* Mutex poisoned or not.  One request is applied to each input.           *)
(***************************************************************************)
Rosters(n) ==
    {q \in [1..n -> Names] : \A i, j \in 1..n : i # j => q[i] # q[j]}

Fresh(q) == [i \in 1..Len(q) |-> PlayerNew(q[i])]

InitAny ==
    /\ \E n \in 0..NumNames : \E q \in Rosters(n) :
       \E s \in Choose(Suspects), w \in Choose(Weapons), r \in Choose(Rooms),
          k \in 0..(MaxShuffles - 1), active \in BOOLEAN :
            IF active /\ n >= 2
            THEN /\ players = Deal(Fresh(q), s, w, r, k).players
                 /\ solution = Deal(Fresh(q), s, w, r, k).solution
            ELSE /\ players = Fresh(q)
                 /\ solution = None
    /\ poisoned \in BOOLEAN
    /\ last = NoRequest
    /\ Unlocked

\* No request has been applied to the input state yet.
Untouched == last.op = "init"

NextOnce ==
    \/ Untouched /\ \E name \in Names : CreatePlayer(name)
    \/ Untouched /\ \E name \in Names : DeletePlayer(name)
    \/ Untouched /\ GetPlayers
    \/ Untouched /\ \E name \in Names : GetPlayer(name)
    \/ Untouched /\ \E s \in Choose(Suspects), w \in Choose(Weapons), r \in Choose(Rooms),
                       k \in 0..(MaxShuffles - 1) : CreateGame(s, w, r, k)
    \/ Untouched /\ DeleteGame
    \/ Untouched /\ \E sg \in InputSuggestions : Suggest(sg)

SpecHandlers == InitAny /\ [][NextOnce]_vars

(***************************************************************************)
(* create_game as a function of the GameState it finds.  Its dealing code  *)
(* runs only when a solution is already stored, so it is applied once to   *)
(* each input state with a stored solution: rosters of 0 to MaxDealPlayers *)
(* players whose hands are empty, and rosters whose hands hold the cards   *)
(* of an earlier deal.                                                     *)
(***************************************************************************)
FirstPlayers(n) == [i \in 1..n |-> PlayerNew(AllNames[i])]

InitDeal ==
    /\ \E n \in 0..MaxDealPlayers :
       \E s \in Choose(Suspects), w \in Choose(Weapons), r \in Choose(Rooms),
          k \in 0..(MaxShuffles - 1), holding \in BOOLEAN :
            /\ players = IF holding /\ n >= 2
                         THEN Deal(FirstPlayers(n), s, w, r, k).players
                         ELSE FirstPlayers(n)
            /\ solution = Suggestion(s, w, r)
    /\ poisoned = FALSE
    /\ last = NoRequest
    /\ Unlocked

NextDeal ==
    /\ Untouched
    /\ \E s \in Choose(Suspects), w \in Choose(Weapons), r \in Choose(Rooms),
          k \in 0..(MaxShuffles - 1) : CreateGame(s, w, r, k)

SpecDeal == InitDeal /\ [][NextDeal]_vars

(***************************************************************************)
(* Concurrent requests.  Rocket runs the handlers on worker threads; each  *)
(* handler's first statement takes the one Mutex rocket() manages, and the *)
(* MutexGuard is dropped when the handler returns or unwinds.  Each thread *)
(* carries one request and takes the lock, reads the GameState, writes it  *)
(* and releases in separate steps, so every interleaving the lock allows   *)
(* is a behaviour.                                                         *)
(***************************************************************************)
Threads == 1..NumThreads

Request(op, name) == [op |-> op, name |-> name]

\* The Suggestion body the suggest requests carry here.
ThreadSuggestion == Suggestion(Suspects[1], Weapons[1], Rooms[1])

Requests ==
    {Request(op, name) : op \in {"create_player", "delete_player", "get_player"},
                         name \in Names}
    \cup {Request(op, NoName) :
            op \in {"get_players", "create_game", "delete_game", "suggest"}}

\* A request that has arrived and not yet called lock().
Waiting(req) ==
    [req |-> req, pc |-> "waiting",
     seen |-> [players |-> <<>>, solution |-> None],
     status |-> "Pending", body |-> NoBody]

InitConc ==
    /\ players = <<>>
    /\ solution = None
    /\ poisoned = FALSE
    /\ last = NoRequest
    /\ holder = 0
    /\ threads \in [Threads -> {Waiting(req) : req \in Requests}]

\* What the handler of req may answer on the GameState st (create_game
\* draws from the random number generator).
Replies(st, req) ==
    CASE req.op = "create_player" -> {create_player(st, req.name)}
      [] req.op = "delete_player" -> {delete_player(st, req.name)}
      [] req.op = "get_player" -> {get_player(st, req.name)}
      [] req.op = "get_players" -> {get_players(st)}
      [] req.op = "create_game" ->
            {create_game(st, s, w, r, k) :
                s \in Choose(Suspects), w \in Choose(Weapons),
                r \in Choose(Rooms), k \in 0..(MaxShuffles - 1)}
      [] req.op = "delete_game" -> {delete_game(st)}
      [] req.op = "suggest" -> {suggest(st, ThreadSuggestion)}

\* lock(), were it to return without waiting for the Mutex to be free.
Acquire_NoLock(t) ==
    /\ threads[t].pc = "waiting"
    /\ IF poisoned
       THEN /\ threads' = [threads EXCEPT ![t].pc = "done", ![t].status = "Panic"]
            /\ holder' = holder
       ELSE /\ threads' = [threads EXCEPT ![t].pc = "locked"]
            /\ holder' = t
    /\ UNCHANGED <<players, solution, poisoned, last>>

\* state_guard.lock().expect(..): returns once no other thread holds the
\* Mutex; on a poisoned Mutex the expect panics and the guard is dropped.
Acquire(t) ==
    /\ threads[t].pc = "waiting"
    /\ holder = 0
    /\ IF poisoned
       THEN /\ threads' = [threads EXCEPT ![t].pc = "done", ![t].status = "Panic"]
            /\ holder' = holder
       ELSE /\ threads' = [threads EXCEPT ![t].pc = "locked"]
            /\ holder' = t
    /\ UNCHANGED <<players, solution, poisoned, last>>

\* The handler reads the GameState through the guard.
Read(t) ==
    /\ threads[t].pc = "locked"
    /\ threads' = [threads EXCEPT ![t].pc = "read", ![t].seen = State]
    /\ UNCHANGED <<players, solution, poisoned, last, holder>>

\* The handler writes what it computed from what it read and has its
\* answer; suggest panics instead, and unwinding drops the guard of a
\* Mutex that is poisoned from then on.
Write(t) ==
    /\ threads[t].pc = "read"
    /\ IF threads[t].req.op = "suggest"
       THEN /\ poisoned' = TRUE
            /\ holder' = 0
            /\ threads' = [threads EXCEPT ![t].pc = "done", ![t].status = "Panic"]
            /\ UNCHANGED <<players, solution>>
       ELSE /\ \E res \in Replies(threads[t].seen, threads[t].req) :
                 /\ players' = res.players
                 /\ solution' = res.solution
                 /\ threads' = [threads EXCEPT ![t].pc = "written",
                                               ![t].status = res.status,
                                               ![t].body = res.body]
            /\ UNCHANGED <<poisoned, holder>>
    /\ last' = last

\* The handler returns and the MutexGuard is dropped.
Release(t) ==
    /\ threads[t].pc = "written"
    /\ holder' = 0
    /\ threads' = [threads EXCEPT ![t].pc = "done"]
    /\ UNCHANGED <<players, solution, poisoned, last>>

NextConc ==
    \/ \E t \in Threads : Acquire(t)
    \/ \E t \in Threads : Read(t)
    \/ \E t \in Threads : Write(t)
    \/ \E t \in Threads : Release(t)

SpecConc == InitConc /\ [][NextConc]_vars

(***************************************************************************)
(* Vocabulary of the properties, written out independently of the          *)
(* handlers' own helpers.                                                  *)
(***************************************************************************)
InRoster(ps, name) == \E i \in 1..Len(ps) : ps[i].name = name

\* The roster without the players called name, the others in order.
Without(ps, name) ==
    LET other(p) == p.name # name
    IN  SelectSeq(ps, other)

RECURSIVE TotalHeld(_)
TotalHeld(ps) ==
    IF ps = <<>> THEN 0 ELSE Len(Head(ps).cards) + TotalHeld(Tail(ps))

\* In how many hand slots card c lies.
Copies(ps, c) ==
    Cardinality({ij \in (1..Len(ps)) \X (1..TotalHeld(ps)) :
                    /\ ij[2] <= Len(ps[ij[1]].cards)
                    /\ ps[ij[1]].cards[ij[2]] = c})

Catalog == Range(AllCards)

SolutionCards(sol) ==
    {Card("Suspect", sol.suspect), Card("Weapon", sol.weapon), Card("Room", sol.room)}

HandSizesBalanced(ps) ==
    \A i, j \in 1..Len(ps) :
        Len(ps[i].cards) - Len(ps[j].cards) \in {-1, 0, 1}

\* Hands and solution together are the catalog, each card once.
FullPartition(ps, sol) ==
    /\ sol # None
    /\ \A c \in Catalog :
        Copies(ps, c) = (IF c \in SolutionCards(sol) THEN 0 ELSE 1)

NamesUnique(ps) ==
    \A i, j \in 1..Len(ps) : ps[i].name = ps[j].name => i = j

\* The latest request was a call of handler op that got the lock.
Ran(op) == last.op = op /\ last.locked

\* StartGame's stated preconditions held when the latest request started.
StartGamePre == ~last.hadSolution /\ last.n >= 2

(***************************************************************************)
(* C1: whenever StartGame (create_game) runs with no game active and at    *)
(* least 2 players registered, it succeeds: it answers Created, and        *)
(* afterwards the solution is Some and the hands have been dealt.          *)
(***************************************************************************)
C1_StartGameSucceeds ==
    (Ran("create_game") /\ StartGamePre)
        => /\ last.status = "Created"
           /\ solution # None
           /\ TotalHeld(players) > 0

(***************************************************************************)
(* C2: StartGame fails whenever a game is already active and whenever      *)
(* fewer than 2 players are registered, and it fails in no other           *)
(* situation.                                                              *)
(***************************************************************************)
C2_StartGameFailsOnlyThen ==
    Ran("create_game")
        => /\ last.hadSolution => last.status = "BadRequest"
           /\ last.n < 2 => last.status = "BadRequest"
           /\ last.status # "Created" => (last.hadSolution \/ last.n < 2)

C6_NoCardsBeforeDeal ==
    solution = None => \A i \in 1..Len(players) : players[i].cards = <<>>

\* Players are registered, a deal has just been asked for, and there is
\* still no solution.
C6_Witness ==
    /\ solution = None
    /\ Len(players) >= 2
    /\ Ran("create_game")

\* What one create_player call that got the lock does to the roster.
C7_AddPlayerStep ==
    (last'.op = "create_player" /\ last'.locked)
        => IF InRoster(players, last'.name)
           THEN last'.status = "Conflict"
           ELSE /\ last'.status = "Created"
                /\ players' = Append(players, [name |-> last'.name, cards |-> <<>>])

(***************************************************************************)
(* C7: an AddPlayer(name) call answers Conflict exactly when the name is   *)
(* already in the roster, and otherwise appends a player of that name with *)
(* an empty hand; in every reachable state no two players share a name.    *)
(***************************************************************************)
C7_AddPlayerUniqueNames ==
    /\ [][C7_AddPlayerStep]_vars
    /\ [](NamesUnique(players))

\* A refused duplicate in a roster of several players, and (before it) the
\* appends that built the roster.
C7_Witness ==
    /\ Ran("create_player")
    /\ last.status = "Conflict"
    /\ Len(players) = 3

\* What one delete_player call that got the lock does to the state.
C8_RemovePlayerStep ==
    (last'.op = "delete_player" /\ last'.locked)
        => IF InRoster(players, last'.name)
           THEN /\ last'.status = "NoContent"
                /\ players' = Without(players, last'.name)
                /\ Len(players') = Len(players) - 1
                /\ solution' = solution
           ELSE last'.status = "NotFound"

(***************************************************************************)
(* C8: a RemovePlayer(name) call answers NotFound exactly when the name is *)
(* not in the roster; otherwise it removes that player with their cards    *)
(* and leaves the other players, their hands, their order and the solution *)
(* as they were.                                                           *)
(***************************************************************************)
C8_RemovePlayerFrame == [][C8_RemovePlayerStep]_vars

\* The middle one of three card-holding players has been removed.
C8_Witness ==
    /\ Ran("delete_player")
    /\ last.status = "NoContent"
    /\ last.name = "Bob"
    /\ Len(players) = 2
    /\ players[1].name = "Alice" /\ players[1].cards # <<>>
    /\ players[2].name = "Carol" /\ players[2].cards # <<>>
    /\ solution # None

(***************************************************************************)
(* C9: ResetGame (delete_game) fails exactly when no game is active; when  *)
(* it succeeds the roster is empty and the solution is None, the state of  *)
(* GameState::new().                                                       *)
(***************************************************************************)
C9_ResetGame ==
    Ran("delete_game")
        => /\ last.status = "BadRequest" <=> ~last.hadSolution
           /\ last.status # "BadRequest"
                => /\ last.status = "NoContent"
                   /\ players = <<>>
                   /\ solution = None

\* A game with players was reset.
C9_Witness ==
    /\ Ran("delete_game")
    /\ last.status = "NoContent"
    /\ last.hadSolution
    /\ last.n >= 2
    /\ players = <<>>

\* The changes of the solution one step may make.
C10_SolutionStep ==
    /\ (solution = None /\ solution' # None)
        => (last'.op = "create_game" /\ last'.status = "Created")
    /\ (solution # None /\ solution' = None)
        => (last'.op = "delete_game" /\ last'.status = "NoContent")
    /\ (solution # None /\ solution' # None) => solution' = solution

ErrorStatuses == {"Conflict", "NotFound", "BadRequest"}

\* What a request that answers an error does to the game state.
C11_ErrorStep ==
    (last'.locked /\ last'.status \in ErrorStatuses)
        => (players' = players /\ solution' = solution)

(***************************************************************************)
(* C11: whenever a request (AddPlayer, RemovePlayer, GetPlayer, StartGame, *)
(* ResetGame) answers an error, the roster, every hand and the solution    *)
(* are after the call what they were before it.                            *)
(***************************************************************************)
C11_ErrorsLeaveState == [][C11_ErrorStep]_vars

\* A duplicate AddPlayer was refused on a game with dealt hands.
C11_Witness ==
    /\ Ran("create_player")
    /\ last.status = "Conflict"
    /\ solution # None
    /\ TotalHeld(players) = 18

(***************************************************************************)
(* C13: every request that has got the lock runs to completion and returns *)
(* a result; it never panics while it holds the lock.                      *)
(***************************************************************************)
C13_NoPanicUnderLock == last.locked => last.status # "Panic"

\* Player i of the roster holds a card the suggestion names.
HoldsMatch(ps, i, sg) ==
    \E j \in 1..Len(ps[i].cards) :
        ps[i].cards[j] \in SolutionCards(sg)

\* The roster positions after position p in turn order, wrapping around and
\* leaving p out.
TurnOrder(ps, p) ==
    [d \in 1..(Len(ps) - 1) |-> ((p - 1 + d) % Len(ps)) + 1]

\* The refuter of a suggestion made by the player at position p: the first
\* player in turn order who holds a matching card; 0 when nobody does.
Refuter(ps, p, sg) ==
    LET order == TurnOrder(ps, p)
        hits == {d \in 1..Len(order) : HoldsMatch(ps, order[d], sg)}
    IN  IF hits = {} THEN 0
        ELSE order[CHOOSE d \in hits : \A e \in hits : d <= e]

RosterNames(ps) == {ps[i].name : i \in 1..Len(ps)}

\* Where in the roster the player called name stands.
IndexOf(ps, name) == CHOOSE i \in 1..Len(ps) : ps[i].name = name

\* One step keeps the roster in insertion order: whoever stands before a
\* player that was already there was there too, and stood before them.
C16_OrderStep ==
    \A a, b \in RosterNames(players') :
        (IndexOf(players', a) < IndexOf(players', b) /\ b \in RosterNames(players))
            => /\ a \in RosterNames(players)
               /\ IndexOf(players, a) < IndexOf(players, b)

\* What ListPlayers and GetPlayer do to the state, and what ListPlayers
\* answers.
C16_ReadStep ==
    /\ last'.op \in {"get_players", "get_player"}
        => (players' = players /\ solution' = solution /\ poisoned' = poisoned)
    /\ (last'.op = "get_players" /\ last'.locked)
        => (last'.status = "Ok" /\ last'.body = players)

(***************************************************************************)
(* C16: ListPlayers and GetPlayer leave the game state unchanged, and      *)
(* ListPlayers returns the players in the order in which they were added:  *)
(* the roster it returns is kept in insertion order by every step.         *)
(***************************************************************************)
C16_ReadsInInsertionOrder ==
    /\ [][C16_ReadStep]_vars
    /\ [][C16_OrderStep]_vars

\* The list was read after Carol and then Alice were added.
C16_Witness ==
    /\ Ran("get_players")
    /\ Len(last.body) = 2
    /\ last.body[1].name = "Carol"
    /\ last.body[2].name = "Alice"

(***************************************************************************)
(* C18: from GameState::new() the solution stays None, no card is ever     *)
(* dealt, and neither create_game nor delete_game ever succeeds.           *)
(***************************************************************************)
C18_NoGameEverStarts ==
    /\ solution = None
    /\ TotalHeld(players) = 0
    /\ Ran("create_game") => last.status = "BadRequest"
    /\ Ran("delete_game") => last.status = "BadRequest"

\* create_game has been refused on a roster of three players.
C18_Witness ==
    /\ Ran("create_game")
    /\ last.status = "BadRequest"
    /\ Len(players) = 3

\* What a suggest request does, and what any request does once the Mutex is
\* poisoned.
C19_Step ==
    /\ (last'.op = "suggest" /\ last'.locked)
        => /\ last'.status = "Panic"
           /\ players' = players
           /\ solution' = solution
           /\ poisoned'
    /\ (~poisoned /\ poisoned') => last'.op = "suggest"
    /\ poisoned
        => /\ poisoned'
           /\ players' = players
           /\ solution' = solution
           /\ last'.status = "Panic"
           /\ ~last'.locked

(***************************************************************************)
(* C19: every suggest request panics while it holds the lock, without      *)
(* changing roster, hands or solution, and poisons the lock; after the     *)
(* first suggest request every later request of any kind fails at lock     *)
(* acquisition and the game state never changes again.                     *)
(***************************************************************************)
C19_SuggestPoisonsForever == [][C19_Step]_vars

\* After a suggest request an AddPlayer for a new name failed at the lock.
C19_Witness ==
    /\ poisoned
    /\ last.op = "create_player"
    /\ last.status = "Panic"
    /\ ~last.locked
    /\ ~last.found
    /\ Len(players) >= 1

\* What the deal gives each of N players whose hands were empty.
C17_DealStep ==
    (/\ last'.op = "create_game"
     /\ last'.status = "Created"
     /\ TotalHeld(players) = 0)
        => /\ Len(players') = Len(players)
           /\ \A i \in 1..Len(players') :
                Len(players'[i].cards) =
                    (18 \div Len(players))
                    + (IF i - 1 < 18 % Len(players) THEN 1 ELSE 0)

(***************************************************************************)
(* C17: when the deal runs over N players whose hands are empty, with      *)
(* base = 18 div N and extra = 18 mod N, the player at roster position i   *)
(* (0-based) ends with base + 1 cards if i < extra and with base cards     *)
(* otherwise.                                                              *)
(***************************************************************************)
C17_HandSizes == [][C17_DealStep]_vars

\* Nineteen players: the first eighteen hold one card, the last none.
C17_Witness ==
    /\ Ran("create_game")
    /\ last.status = "Created"
    /\ Len(players) = 19
    /\ TotalHeld(players) = 18
    /\ Len(players[18].cards) = 1
    /\ Len(players[19].cards) = 0

\* Sequence old is the beginning of sequence new.
IsPrefix(old, new) ==
    /\ Len(old) <= Len(new)
    /\ \A j \in 1..Len(old) : new[j] = old[j]

\* What the deal does to hands that already hold cards.
C20_RedealStep ==
    (/\ last'.op = "create_game"
     /\ last'.status = "Created"
     /\ TotalHeld(players) > 0)
        => /\ solution' # None
           /\ solution'.suspect \in Range(Suspects)
           /\ solution'.weapon \in Range(Weapons)
           /\ solution'.room \in Range(Rooms)
           /\ Len(players') = Len(players)
           /\ \A i \in 1..Len(players) :
                /\ players'[i].name = players[i].name
                /\ IsPrefix(players[i].cards, players'[i].cards)
           /\ TotalHeld(players') = TotalHeld(players) + 18
           /\ TotalHeld(players') > 18

(***************************************************************************)
(* C20: create_game never clears hands before it deals: when it passes     *)
(* its checks in a state where the solution is Some and players already    *)
(* hold cards, it stores a newly drawn solution and appends 18 more cards  *)
(* to the hands, so each hand only grows and more than 18 cards are held.  *)
(***************************************************************************)
C20_DealAppends == [][C20_RedealStep]_vars

\* Two players who held 9 cards each hold 18 each, under another solution
\* than the one their first hands were dealt for.
C20_Witness ==
    /\ Ran("create_game")
    /\ last.status = "Created"
    /\ Len(players) = 2
    /\ Len(players[1].cards) = 18
    /\ Len(players[2].cards) = 18
    /\ \E c \in SolutionCards(solution) : Copies(players, c) > 0

\* The threads whose request has taken effect or ended.
Effected == {t \in Threads : threads[t].pc \in {"written", "done"}}

\* Every order of the threads in S.
Orders(S) ==
    {q \in [1..Cardinality(S) -> S] :
        \A i, j \in 1..Cardinality(S) : i # j => q[i] # q[j]}

\* One request run alone on the state ss: a poisoned Mutex or suggest ends
\* in a panic, any other request in one of its handler's answers.
SerialOutcomes(ss, req) ==
    IF ss.poisoned \/ req.op = "suggest"
    THEN {[players |-> ss.players, solution |-> ss.solution,
           poisoned |-> TRUE, status |-> "Panic", body |-> NoBody]}
    ELSE {[players |-> res.players, solution |-> res.solution,
           poisoned |-> FALSE, status |-> res.status, body |-> res.body] :
            res \in Replies([players |-> ss.players, solution |-> ss.solution], req)}

\* Running the requests of ord one after the other from ss gives each
\* thread the answer it got and ends in the current state.
RECURSIVE SerialFrom(_, _)
SerialFrom(ss, ord) ==
    IF ord = <<>>
    THEN ss.players = players /\ ss.solution = solution /\ ss.poisoned = poisoned
    ELSE \E o \in SerialOutcomes(ss, threads[Head(ord)].req) :
            /\ o.status = threads[Head(ord)].status
            /\ o.body = threads[Head(ord)].body
            /\ SerialFrom([players |-> o.players, solution |-> o.solution,
                           poisoned |-> o.poisoned], Tail(ord))

\* The request leaves the roster entries named name alone.
LeavesName(req, name) ==
    \/ req.op \in {"get_players", "get_player"}
    \/ req.op \in {"create_player", "delete_player"} /\ req.name # name

\* C12: under any interleaving of concurrent requests, no request's read
\* and write are separated by another request's write, the requests that
\* have taken effect so far gave the answers and the state of running them
\* one after the other in some order from the initial GameState, and two
\* concurrent create_player requests with the same name (the others leaving
\* that name alone) end with exactly one roster entry of that name, one
\* answered Created and the other Conflict.
C12_Serializable ==
    /\ \A t \in Threads : threads[t].pc = "read" => threads[t].seen = State
    /\ \E ord \in Orders(Effected) :
          SerialFrom([players |-> <<>>, solution |-> None, poisoned |-> FALSE], ord)
    /\ \A t1, t2 \in Threads :
          ( /\ t1 # t2
            /\ \A t \in Threads : threads[t].pc = "done"
            /\ threads[t1].req.op = "create_player"
            /\ threads[t2].req = threads[t1].req
            /\ \A t \in Threads \ {t1, t2} :
                  LeavesName(threads[t].req, threads[t1].req.name) )
          => /\ Cardinality({i \in 1..Len(players) :
                               players[i].name = threads[t1].req.name}) = 1
             /\ {threads[t1].status, threads[t2].status} = {"Created", "Conflict"}

\* Two threads asked to create the same name and both are done: one entry,
\* one Created, one Conflict.
C12_Witness ==
    \E t1, t2 \in Threads :
        /\ t1 # t2
        /\ threads[t1].pc = "done" /\ threads[t2].pc = "done"
        /\ threads[t1].req.op = "create_player"
        /\ threads[t2].req = threads[t1].req
        /\ threads[t1].status = "Created"
        /\ threads[t2].status = "Conflict"
        /\ Len(players) = 1

====
